---- MODULE Spec2Model ----
(***************************************************************************)
(* A model of sanity-io/signed-urls: the two signing modes (signUrl of     *)
(* src/signing.ts and signAssetUrl of src/assets.ts), the helpers of       *)
(* src/utils.ts they call, and the platform objects they drive (the WHATWG *)
(* URL and URLSearchParams, Date, TextEncoder).                            *)
(*                                                                         *)
(* Strings are sequences of one-character strings, so that every encoding  *)
(* and parsing step is computed character by character.                    *)
(***************************************************************************)
EXTENDS Integers, Sequences, FiniteSets

(***************************************************************************)
(* Characters                                                              *)
(***************************************************************************)

\* The printable ASCII characters, code 32 (space) to code 126 (~).  Code 96
\* (the grave accent) is written "grave": the lexer takes no grave accent in a
\* string.
Ascii ==
  <<
    " ", "!", "\"", "#", "$", "%", "&", "'", "(", ")", "*", "+", ",", "-", ".", "/",
    "0", "1", "2", "3", "4", "5", "6", "7", "8", "9", ":", ";", "<", "=", ">", "?",
    "@", "A", "B", "C", "D", "E", "F", "G", "H", "I", "J", "K", "L", "M", "N", "O",
    "P", "Q", "R", "S", "T", "U", "V", "W", "X", "Y", "Z", "[", "\\", "]", "^", "_",
    "grave", "a", "b", "c", "d", "e", "f", "g", "h", "i", "j", "k", "l", "m", "n", "o",
    "p", "q", "r", "s", "t", "u", "v", "w", "x", "y", "z", "{", "|", "}", "~"
  >>

Chars == {Ascii[i] : i \in 1..Len(Ascii)}

\* The code unit of each character.
CodeOf == [c \in Chars |-> 31 + (CHOOSE i \in 1..Len(Ascii) : Ascii[i] = c)]

Code(c) == CodeOf[c]

Chr(n) == Ascii[n - 31]

Digits == {"0", "1", "2", "3", "4", "5", "6", "7", "8", "9"}

UpperAlpha == {Chr(n) : n \in 65..90}

LowerAlpha == {Chr(n) : n \in 97..122}

AlphaNum == Digits \cup UpperAlpha \cup LowerAlpha

HexChars == <<"0", "1", "2", "3", "4", "5", "6", "7", "8", "9", "A", "B", "C", "D", "E", "F">>

\* The value of a hexadecimal digit (either case), -1 for any other character.
HexVal(c) ==
  IF c \in Digits THEN Code(c) - 48
  ELSE IF c \in {"A", "B", "C", "D", "E", "F"} THEN Code(c) - 55
  ELSE IF c \in {"a", "b", "c", "d", "e", "f"} THEN Code(c) - 87
  ELSE -1

(***************************************************************************)
(* Sequences of characters                                                 *)
(***************************************************************************)

\* The first index of character c in s, 0 when there is none.
IndexOf(s, c) ==
  IF \E i \in 1..Len(s) : s[i] = c
  THEN CHOOSE i \in 1..Len(s) : s[i] = c /\ \A j \in 1..(i - 1) : s[j] # c
  ELSE 0

\* The concatenation of the sequences seqs[lo], ..., seqs[hi], by halves.
RECURSIVE ConcatRange(_, _, _)
ConcatRange(seqs, lo, hi) ==
  IF lo > hi THEN <<>>
  ELSE IF lo = hi THEN seqs[lo]
  ELSE ConcatRange(seqs, lo, (lo + hi) \div 2) \o ConcatRange(seqs, (lo + hi) \div 2 + 1, hi)

Flatten(seqs) == ConcatRange(seqs, 1, Len(seqs))

\* The sum of nums[lo], ..., nums[hi], by halves.
RECURSIVE SumRange(_, _, _)
SumRange(nums, lo, hi) ==
  IF lo > hi THEN 0
  ELSE IF lo = hi THEN nums[lo]
  ELSE SumRange(nums, lo, (lo + hi) \div 2) + SumRange(nums, (lo + hi) \div 2 + 1, hi)

\* s split at every occurrence of the separator character.
RECURSIVE SplitOn(_, _)
SplitOn(s, sep) ==
  LET i == IndexOf(s, sep)
  IN  IF i = 0 THEN <<s>>
      ELSE <<SubSeq(s, 1, i - 1)>> \o SplitOn(SubSeq(s, i + 1, Len(s)), sep)

\* The strings of a sequence joined with a separator string.
RECURSIVE Join(_, _)
Join(parts, sep) ==
  IF parts = <<>> THEN <<>>
  ELSE IF Len(parts) = 1 THEN parts[1]
  ELSE parts[1] \o sep \o Join(Tail(parts), sep)

\* n as a decimal string of at least w digits (String.padStart(w, '0')).
RECURSIVE Pad(_, _)
Pad(n, w) ==
  IF w <= 1 /\ n < 10 THEN <<Chr(48 + n)>>
  ELSE Pad(n \div 10, w - 1) \o <<Chr(48 + (n % 10))>>

(***************************************************************************)
(* application/x-www-form-urlencoded (URLSearchParams)                     *)
(***************************************************************************)

\* One byte as %XX, upper-case hexadecimal.
PercentEncodeByte(n) == <<"%", HexChars[(n \div 16) + 1], HexChars[(n % 16) + 1]>>

\* The urlencoded serializer's treatment of one character: alphanumerics and
\* * - . _ stay, a space becomes +, every other byte is percent-encoded.
FormEncodeChar(c) ==
  IF c \in AlphaNum \cup {"*", "-", ".", "_"} THEN <<c>>
  ELSE IF c = " " THEN <<"+">>
  ELSE PercentEncodeByte(Code(c))

FormEncode(s) == Flatten([i \in 1..Len(s) |-> FormEncodeChar(s[i])])

\* Percent-decoding: %XX with two hexadecimal digits is the byte XX, any other
\* % stays.  Bytes outside printable ASCII do not occur in the modelled inputs.
\* An escape starts at i when s[i] is % and two hexadecimal digits follow.  The
\* two digits of an escape are no % themselves, so escapes never overlap.
EscapeAt(s, i) ==
  /\ i >= 1
  /\ i + 2 <= Len(s)
  /\ s[i] = "%"
  /\ HexVal(s[i + 1]) >= 0
  /\ HexVal(s[i + 2]) >= 0
  /\ 16 * HexVal(s[i + 1]) + HexVal(s[i + 2]) \in 32..126

PercentDecode(s) ==
  Flatten([i \in 1..Len(s) |->
             IF EscapeAt(s, i) THEN <<Chr(16 * HexVal(s[i + 1]) + HexVal(s[i + 2]))>>
             ELSE IF EscapeAt(s, i - 1) \/ EscapeAt(s, i - 2) THEN <<>>
             ELSE <<s[i]>>])

PlusToSpace(s) == [i \in 1..Len(s) |-> IF s[i] = "+" THEN " " ELSE s[i]]

\* One name=value piece of a query, decoded: split at the first =, + is a
\* space, then percent-decoding.
FormParsePair(piece) ==
  LET i == IndexOf(piece, "=")
      name == IF i = 0 THEN piece ELSE SubSeq(piece, 1, i - 1)
      value == IF i = 0 THEN <<>> ELSE SubSeq(piece, i + 1, Len(piece))
  IN  <<PercentDecode(PlusToSpace(name)), PercentDecode(PlusToSpace(value))>>

RECURSIVE FormParsePieces(_)
FormParsePieces(pieces) ==
  IF pieces = <<>> THEN <<>>
  ELSE IF Head(pieces) = <<>> THEN FormParsePieces(Tail(pieces))
  ELSE <<FormParsePair(Head(pieces))>> \o FormParsePieces(Tail(pieces))

\* The urlencoded parser: the list of (name, value) pairs of a query string.
FormParse(q) == FormParsePieces(SplitOn(q, "&"))

RECURSIVE FormSerializePairs(_)
FormSerializePairs(list) ==
  IF list = <<>> THEN <<>>
  ELSE <<FormEncode(list[1][1]) \o <<"=">> \o FormEncode(list[1][2])>>
         \o FormSerializePairs(Tail(list))

\* The urlencoded serializer: name=value pieces joined with &.
FormSerialize(list) == Join(FormSerializePairs(list), <<"&">>)

(***************************************************************************)
(* The WHATWG URL object and its searchParams                              *)
(***************************************************************************)

\* The URL parser's percent-encoding of one query character (special scheme):
\* space " < > ' are encoded, # ends the query, everything else is copied.
QueryEncodeChar(c) ==
  IF c \in {" ", "\"", "<", ">", "'"} THEN PercentEncodeByte(Code(c)) ELSE <<c>>

QueryEncode(s) == Flatten([i \in 1..Len(s) |-> QueryEncodeChar(s[i])])

\* The URL parser's percent-encoding of one fragment character.
FragmentEncodeChar(c) ==
  IF c \in {" ", "\"", "<", ">", "grave"} THEN PercentEncodeByte(Code(c)) ELSE <<c>>

FragmentEncode(s) == Flatten([i \in 1..Len(s) |-> FragmentEncodeChar(s[i])])

\* new URL(s) for an absolute URL string s: everything before the first ? or #
\* (scheme, host and path, already in normal form in the modelled inputs) is
\* kept as it is; the query runs from the first ? to the first #; the fragment
\* is what follows the first #.  The object's searchParams list is the parsed
\* query.
ParseURL(s) ==
  LET h == IndexOf(s, "#")
      front == IF h = 0 THEN s ELSE SubSeq(s, 1, h - 1)
      q == IndexOf(front, "?")
      query == IF q = 0 THEN <<>> ELSE QueryEncode(SubSeq(front, q + 1, Len(front)))
  IN  [base |-> IF q = 0 THEN front ELSE SubSeq(front, 1, q - 1),
       hasQuery |-> q # 0,
       query |-> query,
       hasFragment |-> h # 0,
       fragment |-> IF h = 0 THEN <<>> ELSE FragmentEncode(SubSeq(s, h + 1, Len(s))),
       list |-> FormParse(query)]

\* url.toString(): the URL serializer.
Href(u) ==
  u.base \o (IF u.hasQuery THEN <<"?">> \o u.query ELSE <<>>)
         \o (IF u.hasFragment THEN <<"#">> \o u.fragment ELSE <<>>)

\* The update steps of a URLSearchParams object: its URL's query becomes the
\* serialization of the list, or null when that is the empty string.
WithQuery(u, list, ser) == [u EXCEPT !.list = list, !.hasQuery = (ser # <<>>), !.query = ser]

UpdateQuery(u, list) == WithQuery(u, list, FormSerialize(list))

HasName(list, name) == \E i \in 1..Len(list) : list[i][1] = name

RECURSIVE WithoutName(_, _)
WithoutName(list, name) ==
  IF list = <<>> THEN <<>>
  ELSE IF list[1][1] = name THEN WithoutName(Tail(list), name)
  ELSE <<list[1]>> \o WithoutName(Tail(list), name)

\* The values of every pair called name, in order (searchParams.getAll).
RECURSIVE GetAll(_, _)
GetAll(list, name) ==
  IF list = <<>> THEN <<>>
  ELSE IF list[1][1] = name THEN <<list[1][2]>> \o GetAll(Tail(list), name)
  ELSE GetAll(Tail(list), name)

\* url.searchParams.delete(name)
SearchParamsDelete(u, name) == UpdateQuery(u, WithoutName(u.list, name))

\* url.searchParams.append(name, value)
SearchParamsAppend(u, name, value) == UpdateQuery(u, Append(u.list, <<name, value>>))

\* What set would be if it added the pair without looking for pairs of the
\* same name.
SearchParamsSetAppending(u, name, value) == UpdateQuery(u, Append(u.list, <<name, value>>))

\* url.searchParams.set(name, value): the first pair called name takes the
\* value and stays where it is, the other pairs called name are removed; with
\* no such pair, the pair is appended.
SearchParamsSet(u, name, value) ==
  LET list == u.list
      first == CHOOSE i \in 1..Len(list) :
                 list[i][1] = name /\ \A j \in 1..(i - 1) : list[j][1] # name
  IN  IF HasName(list, name)
      THEN UpdateQuery(u, SubSeq(list, 1, first - 1) \o <<<<name, value>>>>
                          \o WithoutName(SubSeq(list, first + 1, Len(list)), name))
      ELSE UpdateQuery(u, Append(list, <<name, value>>))

(***************************************************************************)
(* Date                                                                    *)
(***************************************************************************)

\* A time value is NaN or an instant: day whole days since the epoch, sod
\* (0..86399) seconds of that day and ms (0..999) milliseconds, standing for
\* the number 1000 * (86400 * day + sod) + ms.
NaN == [nan |-> TRUE, day |-> 0, sod |-> 0, ms |-> 0]

InstantOn(day, sod, ms) == [nan |-> FALSE, day |-> day, sod |-> sod, ms |-> ms]

\* The instant s whole seconds and ms milliseconds after the epoch.
Instant(s, ms) == InstantOn(s \div 86400, s % 86400, ms)

\* The milliseconds within its day of an instant.
MsOfDay(t) == 1000 * t.sod + t.ms

\* a < b on time values: what the comparison would be if an expiry equal to
\* the clock reading were let through.
TimeLess(a, b) ==
  /\ ~a.nan
  /\ ~b.nan
  /\ (a.day < b.day \/ (a.day = b.day /\ MsOfDay(a) < MsOfDay(b)))

\* a <= b on time values; false when either is NaN, as in JavaScript.
TimeLeq(a, b) ==
  /\ ~a.nan
  /\ ~b.nan
  /\ (a.day < b.day \/ (a.day = b.day /\ MsOfDay(a) <= MsOfDay(b)))

\* The civil date <<year, month, day>> of a day number (days since 1970-01-01).
CivilFromDays(days) ==
  LET z == days + 719468
      era == z \div 146097
      doe == z - era * 146097
      yoe == (doe - doe \div 1460 + doe \div 36524 - doe \div 146096) \div 365
      doy == doe - (365 * yoe + yoe \div 4 - yoe \div 100)
      mp == (5 * doy + 2) \div 153
      d == doy - (153 * mp + 2) \div 5 + 1
      m == IF mp < 10 THEN mp + 3 ELSE mp - 9
      y == yoe + era * 400 + (IF m <= 2 THEN 1 ELSE 0)
  IN  <<y, m, d>>

\* The day number of a civil date.
DaysFromCivil(y0, m, d) ==
  LET y == IF m <= 2 THEN y0 - 1 ELSE y0
      era == y \div 400
      yoe == y - era * 400
      doy == (153 * (IF m > 2 THEN m - 3 ELSE m + 9) + 2) \div 5 + d - 1
      doe == yoe * 365 + yoe \div 4 - yoe \div 100 + doy
  IN  era * 146097 + doe - 719468

\* The year of a date-time string: four digits for the years 0000 to 9999,
\* a sign and six digits for the others (the expanded years).
YearString(y) ==
  IF y \in 0..9999 THEN Pad(y, 4)
  ELSE IF y < 0 THEN <<"-">> \o Pad(0 - y, 6)
  ELSE <<"+">> \o Pad(y, 6)

\* Date.prototype.toISOString of a valid time value: YYYY-MM-DDTHH:mm:ss.sssZ.
ToISOString(t) ==
  LET ymd == CivilFromDays(t.day)
      sod == t.sod
  IN  YearString(ymd[1]) \o <<"-">> \o Pad(ymd[2], 2) \o <<"-">> \o Pad(ymd[3], 2)
      \o <<"T">> \o Pad(sod \div 3600, 2) \o <<":">> \o Pad((sod % 3600) \div 60, 2)
      \o <<":">> \o Pad(sod % 60, 2) \o <<".">> \o Pad(t.ms, 3) \o <<"Z">>

\* The ISO date-time forms of Date.parse: YYYY-MM-DD, YYYY-MM-DDTHH:mm:ssZ and
\* YYYY-MM-DDTHH:mm:ss.sssZ, all UTC, the year of four digits or expanded.  Every other string is NaN (the further
\* forms an engine may accept are not among the modelled inputs).
AllDigits(s) == \A i \in 1..Len(s) : s[i] \in Digits

RECURSIVE ToNumber(_)
ToNumber(s) ==
  IF s = <<>> THEN 0 ELSE 10 * ToNumber(SubSeq(s, 1, Len(s) - 1)) + (Code(s[Len(s)]) - 48)

DaysInMonth(y, m) ==
  IF m = 2 THEN (IF (y % 4 = 0 /\ y % 100 # 0) \/ y % 400 = 0 THEN 29 ELSE 28)
  ELSE IF m \in {4, 6, 9, 11} THEN 30
  ELSE 31

DateParse(str) ==
  LET expanded == Len(str) >= 1 /\ str[1] \in {"+", "-"}
      s == IF expanded THEN SubSeq(str, 4, Len(str)) ELSE str
      n == Len(s)
      yearOk == IF expanded
                THEN /\ Len(str) >= 7
                     /\ AllDigits(SubSeq(str, 2, 7))
                     /\ ~(str[1] = "-" /\ ToNumber(SubSeq(str, 2, 7)) = 0)
                ELSE n >= 4 /\ AllDigits(SubSeq(s, 1, 4))
      dateOk == /\ n >= 10
                /\ yearOk /\ s[5] = "-"
                /\ AllDigits(SubSeq(s, 6, 7)) /\ s[8] = "-"
                /\ AllDigits(SubSeq(s, 9, 10))
      timeOk == /\ n \in {20, 24}
                /\ s[11] = "T"
                /\ AllDigits(SubSeq(s, 12, 13)) /\ s[14] = ":"
                /\ AllDigits(SubSeq(s, 15, 16)) /\ s[17] = ":"
                /\ AllDigits(SubSeq(s, 18, 19))
                /\ s[n] = "Z"
                /\ (n = 24 => s[20] = "." /\ AllDigits(SubSeq(s, 21, 23)))
      y == IF expanded
           THEN (IF str[1] = "-" THEN 0 - ToNumber(SubSeq(str, 2, 7))
                 ELSE ToNumber(SubSeq(str, 2, 7)))
           ELSE ToNumber(SubSeq(s, 1, 4))
      m == ToNumber(SubSeq(s, 6, 7))
      d == ToNumber(SubSeq(s, 9, 10))
      hh == IF n = 10 THEN 0 ELSE ToNumber(SubSeq(s, 12, 13))
      mm == IF n = 10 THEN 0 ELSE ToNumber(SubSeq(s, 15, 16))
      ss == IF n = 10 THEN 0 ELSE ToNumber(SubSeq(s, 18, 19))
      ms == IF n = 24 THEN ToNumber(SubSeq(s, 21, 23)) ELSE 0
  IN  IF /\ dateOk
         /\ (n = 10 \/ timeOk)
         /\ m \in 1..12
         /\ d \in 1..DaysInMonth(y, m)
         /\ hh < 24 /\ mm < 60 /\ ss < 60
      THEN InstantOn(DaysFromCivil(y, m, d), hh * 3600 + mm * 60 + ss, ms)
      ELSE NaN

(***************************************************************************)
(* Results of calls                                                        *)
(***************************************************************************)

\* A call returns a string, returns undefined, or throws an error.
Ok(v) == [kind |-> "ok", value |-> v, error |-> ""]

Undefined == [kind |-> "undefined", value |-> <<>>, error |-> ""]

Throw(msg) == [kind |-> "throw", value |-> <<>>, error |-> msg]

\* No result yet.
NoRet == [kind |-> "none", value |-> <<>>, error |-> ""]

(***************************************************************************)
(* utils: normalizeExpiry, normalizeBase64Url, toBase64UrlWithPadding      *)
(***************************************************************************)

\* An expiry option: absent, a Date object, a number (epoch milliseconds) or a
\* string.  time is the Date's or the number's time value.
NoExpiry == [type |-> "undefined", time |-> NaN, text |-> <<>>]

DateExpiry(t) == [type |-> "Date", time |-> t, text |-> <<>>]

NumberExpiry(t) == [type |-> "number", time |-> t, text |-> <<>>]

StringExpiry(s) == [type |-> "string", time |-> NaN, text |-> s]

\* str.replace(/\.\d{3}Z$/, 'Z')
StripMilliseconds(str) ==
  LET n == Len(str)
  IN  IF /\ n >= 5
         /\ str[n] = "Z"
         /\ str[n - 4] = "."
         /\ AllDigits(SubSeq(str, n - 3, n - 1))
      THEN SubSeq(str, 1, n - 5) \o <<"Z">>
      ELSE str

\* What normalizeExpiry would be without its check of the parsed date.
normalizeExpiryUnchecked(expiry, now) ==
  IF expiry.type = "undefined" THEN Undefined
  ELSE
    LET date == IF expiry.type = "string" THEN DateParse(expiry.text) ELSE expiry.time
    IN  IF TimeLeq(date, now)
        THEN Throw("Expiry date must be in the future")
        ELSE IF date.nan
        THEN Throw("Invalid time value")
        ELSE Ok(StripMilliseconds(ToISOString(date)))

\* normalizeExpiry(expiry), with the clock reading now.
normalizeExpiry(expiry, now) ==
  IF expiry.type = "undefined" THEN Undefined
  ELSE
    LET date == IF expiry.type = "Date" THEN expiry.time
                ELSE IF expiry.type = "number" THEN expiry.time
                ELSE DateParse(expiry.text)
    IN  IF expiry.type # "Date" /\ date.nan
        THEN Throw("Invalid expiry date format")
        ELSE IF TimeLeq(date, now)
        THEN Throw("Expiry date must be in the future")
        ELSE IF date.nan
        THEN Throw("Invalid time value")
        ELSE Ok(StripMilliseconds(ToISOString(date)))

\* What normalizeBase64Url would be if it left + and / in place.
KeepBase64(base64) == base64

\* normalizeBase64Url(base64): + becomes -, / becomes _.

normalizeBase64Url(base64) ==
  [i \in 1..Len(base64) |->
     IF base64[i] = "+" THEN "-"
     ELSE IF base64[i] = "/" THEN "_"
     ELSE base64[i]]

Base64Alphabet ==
  <<
    "A", "B", "C", "D", "E", "F", "G", "H", "I", "J", "K", "L", "M", "N", "O", "P",
    "Q", "R", "S", "T", "U", "V", "W", "X", "Y", "Z", "a", "b", "c", "d", "e", "f",
    "g", "h", "i", "j", "k", "l", "m", "n", "o", "p", "q", "r", "s", "t", "u", "v",
    "w", "x", "y", "z", "0", "1", "2", "3", "4", "5", "6", "7", "8", "9", "+", "/"
  >>

\* The four base64 characters of the group of up to three bytes that starts
\* at byte i, padded with =.
Base64Group(bytes, i) ==
  LET left == Len(bytes) - i + 1
      b1 == bytes[i]
      b2 == IF left >= 2 THEN bytes[i + 1] ELSE 0
      b3 == IF left >= 3 THEN bytes[i + 2] ELSE 0
  IN  <<Base64Alphabet[(b1 \div 4) + 1],
        Base64Alphabet[((b1 % 4) * 16 + b2 \div 16) + 1],
        IF left >= 2 THEN Base64Alphabet[((b2 % 16) * 4 + b3 \div 64) + 1] ELSE "=",
        IF left >= 3 THEN Base64Alphabet[(b3 % 64) + 1] ELSE "=">>

\* Standard base64 with padding (Buffer.toString('base64'), btoa).
BytesToBase64(bytes) ==
  Flatten([k \in 1..((Len(bytes) + 2) \div 3) |-> Base64Group(bytes, 3 * k - 2)])

\* '='.repeat(n)
Equals(n) == [i \in 1..n |-> "="]

\* toBase64UrlWithPadding(bytes)
toBase64UrlWithPadding(bytes) ==
  LET b64 == BytesToBase64(bytes)
      padded == IF Len(b64) % 4 # 0 THEN b64 \o Equals(4 - (Len(b64) % 4)) ELSE b64
  IN  normalizeBase64Url(padded)

\* The value (0..63) of a base64 character in an alphabet, -1 for a character
\* outside it.
Base64Value(c, alphabet) ==
  IF \E i \in 1..Len(alphabet) : alphabet[i] = c
  THEN (CHOOSE i \in 1..Len(alphabet) : alphabet[i] = c) - 1
  ELSE 0 - 1

\* str without its padding: at most two = at the end.
WithoutPadding(str) ==
  LET n == Len(str)
  IN  IF n >= 2 /\ str[n] = "=" /\ str[n - 1] = "=" THEN SubSeq(str, 1, n - 2)
      ELSE IF n >= 1 /\ str[n] = "=" THEN SubSeq(str, 1, n - 1)
      ELSE str

\* Base64 decoding over an alphabet: every four characters give three bytes,
\* two or three characters at the end give one or two bytes; a character
\* outside the alphabet, or one character at the end, is a decode error.
Base64Decode(str, alphabet) ==
  LET body == WithoutPadding(str)
      n == Len(body)
      v == [i \in 1..(n + 3) |-> IF i <= n THEN Base64Value(body[i], alphabet) ELSE 0]
      group(g) == v[4 * g + 1] * 262144 + v[4 * g + 2] * 4096 + v[4 * g + 3] * 64 + v[4 * g + 4]
      byte(k) == (group((k - 1) \div 3)
                    \div (IF (k - 1) % 3 = 0 THEN 65536 ELSE IF (k - 1) % 3 = 1 THEN 256 ELSE 1)) % 256
  IN  IF (\E i \in 1..n : v[i] < 0) \/ n % 4 = 1
      THEN Throw("Invalid base64")
      ELSE Ok([k \in 1..((n * 6) \div 8) |-> byte(k)])

\* base64ToBytes(base64): standard base64 to bytes.
base64ToBytes(base64) == Base64Decode(base64, Base64Alphabet)

(***************************************************************************)
(* The external signer (@noble/ed25519) and TextEncoder                    *)
(***************************************************************************)

\* new TextEncoder().encode(str): the UTF-8 bytes of an ASCII string.
TextEncode(str) == [i \in 1..Len(str) |-> Code(str[i])]

\* etc.hexToBytes(hex): the bytes of a hexadecimal string; throws for a string
\* of odd length or with a character that is no hexadecimal digit.
hexToBytes(hex) ==
  IF Len(hex) % 2 # 0 \/ \E i \in 1..Len(hex) : HexVal(hex[i]) < 0
  THEN [kind |-> "throw", bytes |-> <<>>, error |-> "hex invalid"]
  ELSE [kind |-> "ok",
        bytes |-> [i \in 1..(Len(hex) \div 2) |->
                     16 * HexVal(hex[2 * i - 1]) + HexVal(hex[2 * i])],
        error |-> ""]

\* A position-weighted checksum of a byte sequence.
Digest(bytes, a, b, modulus) ==
  SumRange([i \in 1..Len(bytes) |-> (((a * i + b) % modulus) * (bytes[i] + 1)) % modulus],
           1, Len(bytes)) % modulus

\* The length of an Ed25519 signature and of its private key (seed), in bytes.
SignatureLength == 64

SeedLength == 32

\* The signer's process-wide setting hashes.sha512: "unset" until a module of
\* the library is loaded, "sha512" once its top-level statement
\* hashes.sha512 = sha512 has run.
VARIABLE hashes

\* sign(message, privateKey).  The signer is outside the repository: it stands
\* here as a fixed deterministic function from (message, key) to 64 bytes, with
\* two independent checksums of key and message in its first four bytes, so
\* that different inputs of the model give different signatures.  It throws
\* for a key that is not 32 bytes long, and when hashes.sha512 is not set.
SignatureBytes(h1, h2) ==
  [i \in 1..SignatureLength |->
     IF i = 1 THEN h1 % 256
     ELSE IF i = 2 THEN h1 \div 256
     ELSE IF i = 3 THEN h2 % 256
     ELSE IF i = 4 THEN h2 \div 256
     ELSE (h1 + i * h2 + i) % 256]

\* What sign would be if it took a key of any length.
signAnyLength(message, seed) ==
  [kind |-> "ok",
   bytes |-> SignatureBytes(
               (Digest(message, 31, 7, 65521) + 131 * Digest(seed, 17, 3, 65521)) % 65521,
               (Digest(message, 37, 11, 65519) + 137 * Digest(seed, 13, 5, 65519)) % 65519),
   error |-> ""]

sign(message, seed) ==
  IF Len(seed) # SeedLength
  THEN [kind |-> "throw", bytes |-> <<>>, error |-> "private key of length 32 expected"]
  ELSE IF hashes # "sha512"
  THEN [kind |-> "throw", bytes |-> <<>>, error |-> "hashes.sha512 not set"]
  ELSE [kind |-> "ok",
        bytes |-> SignatureBytes(
                    (Digest(message, 31, 7, 65521) + 131 * Digest(seed, 17, 3, 65521)) % 65521,
                    (Digest(message, 37, 11, 65519) + 137 * Digest(seed, 13, 5, 65519)) % 65519),
        error |-> ""]

(***************************************************************************)
(* pem: ed25519SeedFromPkcs8, extractPemContents, pemToEd25519Bytes        *)
(***************************************************************************)

\* The tag of a DER OCTET STRING.
OctetStringTag == 4

\* bytes.slice(start, start + count), positions from 1: the bytes there are,
\* fewer than count at the end of the buffer.
Slice(bytes, start, count) ==
  [k \in 1..(IF Len(bytes) - start + 1 < count
             THEN (IF Len(bytes) < start THEN 0 ELSE Len(bytes) - start + 1)
             ELSE count) |-> bytes[start + k - 1]]

\* What the positions would be without the check of the bytes that remain.
TagPositions(der) ==
  {i \in 1..(Len(der) - 1) : der[i] = OctetStringTag /\ der[i + 1] = SeedLength}

\* The positions where a byte equal to the OCTET STRING tag is followed by a
\* length byte equal to 32 and at least 32 more bytes remain.
SeedPositions(der) ==
  {i \in 1..(Len(der) - SeedLength - 1) : der[i] = OctetStringTag /\ der[i + 1] = SeedLength}

\* The first of the positions.
FirstMatch(positions) == CHOOSE i \in positions : \A j \in positions : i <= j

\* The last of the positions.
LastMatch(positions) == CHOOSE i \in positions : \A j \in positions : j <= i

\* ed25519SeedFromPkcs8(der): the 32 bytes of the last match.
ed25519SeedFromPkcs8(der) ==
  IF SeedPositions(der) = {}
  THEN Throw("Ed25519 32-byte seed not found in PKCS#8")
  ELSE Ok(Slice(der, LastMatch(SeedPositions(der)) + 2, SeedLength))

\* The first position at or after from where pat occurs in str, 0 when it
\* occurs nowhere there.
FindFrom(str, pat, from) ==
  LET at == {i \in from..(Len(str) - Len(pat) + 1) : SubSeq(str, i, i + Len(pat) - 1) = pat}
  IN  IF at = {} THEN 0 ELSE CHOOSE i \in at : \A j \in at : i <= j

Dashes == <<"-", "-", "-", "-", "-">>

\* str without its first marker that begins with head (-----BEGIN or
\* -----END) and runs to the next five dashes.
RemoveMarker(str, head) ==
  LET i == FindFrom(str, head, 1)
      j == IF i = 0 THEN 0 ELSE FindFrom(str, Dashes, i + Len(head))
  IN  IF j = 0 THEN str
      ELSE SubSeq(str, 1, i - 1) \o SubSeq(str, j + Len(Dashes), Len(str))

\* Space, tab, line feed and carriage return.
Whitespace == {" ", "\t", "\n", "\r"}

\* What the stripping would be if it took out spaces and line feeds only.
StripSpacesAndLineFeeds(str) == SelectSeq(str, LAMBDA c : c \notin {" ", "\n"})

\* str without its whitespace.
StripWhitespace(str) == SelectSeq(str, LAMBDA c : c \notin Whitespace)

\* extractPemContents(pem): the base64 body, without the BEGIN and END markers
\* and without whitespace.
extractPemContents(pem) ==
  StripWhitespace(RemoveMarker(RemoveMarker(pem, Dashes \o <<"B", "E", "G", "I", "N", " ">>), Dashes \o <<"E", "N", "D", " ">>))

\* The seed of decoded DER bytes; a decode error is passed on.
SeedOfDecoded(decoded) ==
  IF decoded.kind = "throw" THEN decoded ELSE ed25519SeedFromPkcs8(decoded.value)

\* pemToEd25519Bytes(pem)
pemToEd25519Bytes(pem) == SeedOfDecoded(base64ToBytes(extractPemContents(pem)))

(***************************************************************************)
(* The caller's objects                                                    *)
(***************************************************************************)

\* A heap is a sequence of URL objects; a reference is an index into it.  The
\* url argument of a call is a string or a reference to a URL object.
StringArg(str) == [isObject |-> FALSE, str |-> str, ref |-> 0]

ObjectArg(ref) == [isObject |-> TRUE, str |-> <<>>, ref |-> ref]

\* url.toString() of an argument.
ArgToString(heap, url) == IF url.isObject THEN Href(heap[url.ref]) ELSE url.str

\* A frame is the state of a call under way: the heap, the call's own URL
\* object, and the error thrown once one is.

\* What a call would work on if it took the caller's object for its own instead
\* of making a new one.
SameURL(heap, url) ==
  IF url.isObject THEN [heap |-> heap, ref |-> url.ref, result |-> NoRet]
  ELSE [heap |-> Append(heap, ParseURL(url.str)), ref |-> Len(heap) + 1, result |-> NoRet]

\* new URL(url): a new object, parsed from the argument's string form.
NewURL(heap, url) ==
  [heap |-> Append(heap, ParseURL(ArgToString(heap, url))),
   ref |-> Len(heap) + 1,
   result |-> NoRet]

Thrown(f) == f.result.kind = "throw"

\* url.toString() of the frame's URL object.
FrameHref(f) == Href(f.heap[f.ref])

(***************************************************************************)
(* Signing                                                                 *)
(***************************************************************************)

\* What a signing call would leave of the setting if it reset it.
ResetBySigning(h) == "unset"

\* No statement of a signing function assigns hashes.sha512: a call leaves the
\* setting as it found it.
AfterSigning(h) == h

S_keyid == <<"k", "e", "y", "i", "d">>

S_expiry == <<"e", "x", "p", "i", "r", "y">>

S_signature == <<"s", "i", "g", "n", "a", "t", "u", "r", "e">>

S_ampSignatureEq == <<"&">> \o S_signature \o <<"=">>

\* sign(urlBytes, privateKeyBytes), unless hexToBytes has thrown.
SignWithKey(urlBytes, privateKeyBytes) ==
  IF privateKeyBytes.kind = "throw" THEN privateKeyBytes
  ELSE sign(urlBytes, privateKeyBytes.bytes)

\* return toBase64UrlWithPadding(signatureBytes), unless an error was thrown.
EncodeSignature(signatureBytes) ==
  IF signatureBytes.kind = "throw" THEN Throw(signatureBytes.error)
  ELSE Ok(toBase64UrlWithPadding(signatureBytes.bytes))

\* generateSignature(url, privateKey), url given by its string form.
generateSignature(urlStr, privateKey) ==
  EncodeSignature(SignWithKey(TextEncode(urlStr), hexToBytes(privateKey)))

\* A string is truthy when it is not empty; undefined is falsy.
Truthy(r) == r.kind = "ok" /\ r.value # <<>>

\* a comes before b in the order of the character codes, a proper prefix first.
RECURSIVE LexLess(_, _)
LexLess(a, b) ==
  IF b = <<>> THEN FALSE
  ELSE IF a = <<>> THEN TRUE
  ELSE IF Head(a) # Head(b) THEN Code(Head(a)) < Code(Head(b))
  ELSE LexLess(Tail(a), Tail(b))

PairLess(p, q) == LexLess(p[1], q[1]) \/ (p[1] = q[1] /\ LexLess(p[2], q[2]))

\* What the sorting would be if it left the pairs in their order.
KeepOrder(list) == list

\* The pairs of a list sorted by name, then by value.
RECURSIVE SortPairs(_)
SortPairs(list) ==
  IF list = <<>> THEN <<>>
  ELSE LET m == CHOOSE i \in 1..Len(list) :
                  \A j \in 1..Len(list) : ~PairLess(list[j], list[i])
       IN  <<list[m]>> \o SortPairs(SubSeq(list, 1, m - 1) \o SubSeq(list, m + 1, Len(list)))

\* Percent-encoding of a key or value: letters, digits, - . _ ~ stay, every
\* other byte is %XX in upper-case hexadecimal, a space %20.
Rfc3986Encode(str) ==
  Flatten([i \in 1..Len(str) |->
             IF str[i] \in AlphaNum \cup {"-", ".", "_", "~"} THEN <<str[i]>>
             ELSE PercentEncodeByte(Code(str[i]))])

\* extractUserParams(url): the parameters of the URL that are not named keyid,
\* expiry or signature.
extractUserParams(u) == SelectSeq(u.list, LAMBDA p : p[1] \notin {S_keyid, S_expiry, S_signature})

EncodePairs(params) ==
  [i \in 1..Len(params) |-> <<Rfc3986Encode(params[i][1]), Rfc3986Encode(params[i][2])>>]

JoinPairs(pairs) == Join([i \in 1..Len(pairs) |-> pairs[i][1] \o <<"=">> \o pairs[i][2]], <<"&">>)

\* getCanonicalQuery(params): the encoded pairs, sorted by encoded key then by
\* encoded value, joined as key=value with &.
getCanonicalQuery(params) == JoinPairs(SortPairs(EncodePairs(params)))

\* What urlWithSigningParams would start from if it put the remaining
\* parameters in sorted order.
DeleteAndSortParams(f) ==
  [f EXCEPT !.heap[f.ref] =
     UpdateQuery(@, SortPairs(SelectSeq(@.list, LAMBDA p : p[1] \notin {S_keyid, S_expiry, S_signature})))]

\* What urlWithSigningParams would start from without its delete calls.
KeepSigningParams(f) == f

\* What urlWithSigningParams would start from if signature were not deleted.
DeleteKeyidAndExpiry(f) ==
  [f EXCEPT !.heap[f.ref] = SearchParamsDelete(SearchParamsDelete(@, S_keyid), S_expiry)]

\* signing.ts, urlWithSigningParams: the three searchParams.delete calls.
DeleteSigningParams(f) ==
  [f EXCEPT !.heap[f.ref] =
     SearchParamsDelete(
       SearchParamsDelete(SearchParamsDelete(@, S_keyid), S_expiry), S_signature)]

\* urlObj.searchParams.append('keyid', keyId)
AppendKeyid(f, keyId) == [f EXCEPT !.heap[f.ref] = SearchParamsAppend(@, S_keyid, keyId)]

\* const expiryStr = normalizeExpiry(expiry), which may throw;
\* if (expiryStr) urlObj.searchParams.append('expiry', expiryStr)
AppendExpiry(f, expiryStr) ==
  IF expiryStr.kind = "throw" THEN [f EXCEPT !.result = expiryStr]
  ELSE IF Truthy(expiryStr)
  THEN [f EXCEPT !.heap[f.ref] = SearchParamsAppend(@, S_expiry, expiryStr.value)]
  ELSE f

\* The call returns its URL object, recorded by its string form.
ReturnUrl(f) == IF Thrown(f) THEN f ELSE [f EXCEPT !.result = Ok(FrameHref(f))]

\* urlWithSigningParams(url, {expiry, keyId}) of signing.ts: the frame when the
\* call is over.
urlWithSigningParams(heap, url, options, now) ==
  ReturnUrl(
    AppendExpiry(
      AppendKeyid(DeleteSigningParams(NewURL(heap, url)), options.keyId),
      normalizeExpiry(options.expiry, now)))

\* What signUrl would return if the signature went through searchParams.append.
AppendSignature(f, signature) ==
  IF signature.kind = "throw" THEN [f EXCEPT !.result = signature]
  ELSE [f EXCEPT !.result = Ok(Href(SearchParamsAppend(f.heap[f.ref], S_signature, signature.value)))]

\* return `${urlWithParams.toString()}&signature=${signature}`
ConcatSignature(f, signature) ==
  IF signature.kind = "throw" THEN [f EXCEPT !.result = signature]
  ELSE [f EXCEPT !.result = Ok(FrameHref(f) \o S_ampSignatureEq \o signature.value)]

\* signUrl after urlWithSigningParams: generateSignature(urlWithParams,
\* privateKey) and the concatenation.
SignUrlWithParams(f, privateKey) ==
  IF Thrown(f) THEN f
  ELSE ConcatSignature(f, generateSignature(FrameHref(f), privateKey))

\* signUrl(url, options) of signing.ts: the frame when the call is over.
signUrl(heap, url, options, now) ==
  SignUrlWithParams(urlWithSigningParams(heap, url, options, now), options.privateKey)

\* baseUrl.searchParams.set('keyid', keyId)
SetKeyid(f, keyId) == [f EXCEPT !.heap[f.ref] = SearchParamsSet(@, S_keyid, keyId)]

\* const expiryStr = normalizeExpiry(expiry), which may throw;
\* if (expiryStr) baseUrl.searchParams.set('expiry', expiryStr)
SetExpiry(f, expiryStr) ==
  IF expiryStr.kind = "throw" THEN [f EXCEPT !.result = expiryStr]
  ELSE IF Truthy(expiryStr)
  THEN [f EXCEPT !.heap[f.ref] = SearchParamsSet(@, S_expiry, expiryStr.value)]
  ELSE f

\* What the last step of signAssetUrl would be if a failed signature left the
\* URL made so far to be returned.
SetSignatureIfAny(f, signature) ==
  IF signature.kind = "throw" THEN ReturnUrl(f)
  ELSE ReturnUrl([f EXCEPT !.heap[f.ref] = SearchParamsSet(@, S_signature, signature.value)])

\* baseUrl.searchParams.set('signature', signature); return baseUrl.toString()
SetSignature(f, signature) ==
  IF signature.kind = "throw" THEN [f EXCEPT !.result = signature]
  ELSE ReturnUrl([f EXCEPT !.heap[f.ref] = SearchParamsSet(@, S_signature, signature.value)])

\* signAssetUrl after the expiry: generateSignature(baseUrl, privateKey) and
\* the rest.
SignBaseUrl(f, privateKey) ==
  IF Thrown(f) THEN f
  ELSE SetSignature(f, generateSignature(FrameHref(f), privateKey))

\* signAssetUrl(url, options) of assets.ts: the frame when the call is over.
signAssetUrl(heap, url, options, now) ==
  SignBaseUrl(
    SetExpiry(SetKeyid(NewURL(heap, url), options.keyId),
              normalizeExpiry(options.expiry, now)),
    options.privateKey)

(***************************************************************************)
(* Inputs                                                                  *)
(***************************************************************************)

\* The most query parameters of an input URL.
MaxParams == 2

\* The most milliseconds the clock advances.
MaxTicks == 1

\* The clock starts at 2025-12-31T12:00:00.000Z.
NowSec == 1767182400

BaseUrl == <<"h", "t", "t", "p", "s", ":", "/", "/", "h", "/", "a", ".", "j", "p", "g">>

\* The query parameters input URLs are made of, as written by the caller.
Piece_a == <<"a", "=", "1">>

Piece_b == <<"b", "=", "x", "%", "2", "0", "y">>

Piece_keyid == <<"k", "e", "y", "i", "d", "=", "o", "l", "d">>

Piece_expiry == <<"e", "x", "p", "i", "r", "y", "=", "o", "l", "d">>

Piece_signature == <<"s", "i", "g", "n", "a", "t", "u", "r", "e", "=", "a", "b", "c">>

Pieces == {Piece_a, Piece_b, Piece_keyid, Piece_expiry, Piece_signature}

\* The sequences over S of length at most n.
RECURSIVE SeqsUpTo(_, _)
SeqsUpTo(S, n) ==
  IF n = 0 THEN {<<>>}
  ELSE LET shorter == SeqsUpTo(S, n - 1)
       IN  shorter \cup {Append(q, x) : q \in {r \in shorter : Len(r) = n - 1}, x \in S}

UrlOf(pieces, fragment) ==
  BaseUrl \o (IF pieces = <<>> THEN <<>> ELSE <<"?">> \o Join(pieces, <<"&">>)) \o fragment

Fragment == <<"#", "f">>

\* Input URLs: every query of at most MaxParams pieces without a fragment, and
\* the queries of at most one piece with a fragment.
InputUrls ==
  {UrlOf(q, <<>>) : q \in SeqsUpTo(Pieces, MaxParams)}
    \cup {UrlOf(q, Fragment) : q \in {<<>>} \cup {<<p>> : p \in Pieces}}

TEST_PRIVATE_KEY ==
  <<"9", "d", "6", "1", "b", "1", "9", "d", "e", "f", "f", "d", "5", "a", "6", "0",
    "b", "a", "8", "4", "4", "a", "f", "4", "9", "2", "e", "c", "2", "c", "c", "4",
    "4", "4", "4", "9", "c", "5", "6", "9", "7", "b", "3", "2", "6", "9", "1", "9",
    "7", "0", "3", "b", "a", "c", "0", "3", "1", "c", "a", "e", "7", "f", "6", "0">>

\* A private key that is no hexadecimal string.
BadKey == <<"z", "z">>

\* Private keys that are not 64 hexadecimal characters: with characters that
\* are no hexadecimal digits, 20 hexadecimal digits, three hexadecimal digits,
\* 66 hexadecimal digits, and the empty string.
Key_invalid == <<"i", "n", "v", "a", "l", "i", "d", "-", "k", "e", "y">>

Key_short == [i \in 1..20 |-> IF i % 2 = 1 THEN "a" ELSE "b"]

Key_odd == <<"a", "b", "c">>

Key_long == TEST_PRIVATE_KEY \o <<"0", "0">>

InvalidKeys == {BadKey, Key_invalid, Key_short, Key_odd, Key_long, <<>>}

KeyId1 == <<"k", "1">>

\* A key id with characters the query encoder escapes.
KeyId2 == <<"k", "=", "2", " ">>

\* Expiries: 61.5 s after the clock's start, 1 ms after it (not in the future
\* once the clock has advanced), and a date string.
ExpiryDate == DateExpiry(Instant(NowSec + 61, 500))

ExpiryNumber == NumberExpiry(Instant(NowSec, 1))

ExpiryString == StringExpiry(<<"2", "0", "2", "6", "-", "1", "2", "-", "3", "1", "T", "2", "3", ":", "5", "9", ":", "5", "9", "Z">>)

\* The expiries handed to normalizeExpiry directly: the instants around the
\* clock reading, each as a Date, as a number of milliseconds and as the
\* ISO strings that denote it; date-only strings; strings that are no date;
\* the invalid Date and the number NaN.
MaxAhead == 1

\* The first day of the year 10000, the first year that toISOString writes
\* with a sign and six digits.
FirstExpandedDay == DaysFromCivil(10000, 1, 1)

ExpiryInstants ==
  {Instant(NowSec + ds, ms) : ds \in (0 - 1)..MaxAhead, ms \in {0, 1, 2, 500, 999}}
    \cup {InstantOn(FirstExpandedDay - dd, sod, 500) : dd \in 0..1, sod \in {0, 86399}}

IsoStringsOf(t) ==
  {ToISOString(t)} \cup (IF t.ms = 0 THEN {StripMilliseconds(ToISOString(t))} ELSE {})

DateOnlyStrings == {<<"2", "0", "2", "6", "-", "1", "2", "-", "3", "1">>, <<"2", "0", "2", "5", "-", "1", "2", "-", "3", "1">>}

NoDateStrings == {<<>>, <<"i", "n", "v", "a", "l", "i", "d", "-", "d", "a", "t", "e">>}

ExpiryInputs ==
  {NoExpiry, DateExpiry(NaN), NumberExpiry(NaN), ExpiryDate, ExpiryNumber, ExpiryString}
    \cup {DateExpiry(t) : t \in ExpiryInstants}
    \cup {NumberExpiry(t) : t \in ExpiryInstants}
    \cup {StringExpiry(str) : str \in UNION {IsoStringsOf(t) : t \in ExpiryInstants}}
    \cup {StringExpiry(str) : str \in DateOnlyStrings \cup NoDateStrings}

\* The byte sequences handed to toBase64UrlWithPadding: every sequence of at
\* most MaxBytes bytes over values whose base64 digits take in + and /, the
\* 64-byte sequences of one such value (a signature's length), and the
\* bytes of Hello.
MaxBytes == 4

ByteValues == {0, 62, 63, 255}

HelloBytes == <<72, 101, 108, 108, 111>>

ByteInputs ==
  SeqsUpTo(ByteValues, MaxBytes)
    \cup {[i \in 1..SignatureLength |-> b] : b \in ByteValues}
    \cup {HelloBytes}

\* The DER buffers handed to ed25519SeedFromPkcs8: at most MaxChunks pieces,
\* each the tag and length of a 32-byte OCTET STRING, the tag and length of a
\* 16-byte one, 32 bytes 0x00, 32 bytes 0xFF, 31 bytes 0x42 or the two bytes
\* of a SEQUENCE header.
MaxChunks == 4

Chunk_seed == <<OctetStringTag, SeedLength>>

Chunk_short == <<OctetStringTag, 16>>

Chunk_zero == [i \in 1..SeedLength |-> 0]

Chunk_ff == [i \in 1..SeedLength |-> 255]

Chunk_31 == [i \in 1..(SeedLength - 1) |-> 66]

Chunk_sequence == <<48, 46>>

DerChunks == {Chunk_seed, Chunk_short, Chunk_zero, Chunk_ff, Chunk_31, Chunk_sequence}

DerInputs == {Flatten(chunks) : chunks \in SeqsUpTo(DerChunks, MaxChunks)}

\* The PEM texts handed to pemToEd25519Bytes: a base64 body (a PKCS#8 Ed25519
\* key, the keys of the all-zero and of the all-0xFF seed, a key of another
\* type, no body, a body that is no base64) laid out between the markers on
\* one to MaxLines lines, ended by LF or CRLF, bare or padded with spaces or a
\* tab, under one of two labels.
MaxLines == 3

Body_valid ==
  <<"M", "C", "4", "C", "A", "Q", "A", "w", "B", "Q", "Y", "D", "K", "2", "V", "w",
    "B", "C", "I", "E", "I", "L", "d", "w", "g", "3", "p", "Z", "3", "Q", "x", "1",
    "Z", "G", "U", "H", "y", "q", "L", "9", "U", "6", "Z", "w", "A", "a", "8", "c",
    "V", "b", "N", "9", "x", "H", "u", "G", "k", "F", "8", "J", "2", "m", "K", "q">>

Body_zero ==
  <<"M", "C", "4", "C", "A", "Q", "A", "w", "B", "Q", "Y", "D", "K", "2", "V", "w",
    "B", "C", "I", "E", "I", "A", "A", "A", "A", "A", "A", "A", "A", "A", "A", "A",
    "A", "A", "A", "A", "A", "A", "A", "A", "A", "A", "A", "A", "A", "A", "A", "A",
    "A", "A", "A", "A", "A", "A", "A", "A", "A", "A", "A", "A", "A", "A", "A", "A">>

Body_ff ==
  <<"M", "C", "4", "C", "A", "Q", "A", "w", "B", "Q", "Y", "D", "K", "2", "V", "w",
    "B", "C", "I", "E", "I", "P", "/", "/", "/", "/", "/", "/", "/", "/", "/", "/",
    "/", "/", "/", "/", "/", "/", "/", "/", "/", "/", "/", "/", "/", "/", "/", "/",
    "/", "/", "/", "/", "/", "/", "/", "/", "/", "/", "/", "/", "/", "/", "/", "/">>

Body_noSeed ==
  <<"M", "I", "G", "H", "A", "g", "E", "A", "M", "B", "M", "G", "B", "y", "q", "G",
    "S", "M", "4", "9", "A", "g", "E", "G", "C", "C", "q", "G", "S", "M", "4", "9",
    "A", "w", "E", "H", "B", "G", "0", "w", "a", "w", "I", "B", "A", "Q", "Q", "g",
    "x", "y", "z">>

Body_invalid ==
  <<"I", "n", "v", "a", "l", "i", "d", "B", "a", "s", "e", "6", "4", "C", "o", "n",
    "t", "e", "n", "t", "!", "!", "!">>

PemBodies == {Body_valid, Body_zero, Body_ff, Body_noSeed, Body_invalid, <<>>}

Label_private == <<"P", "R", "I", "V", "A", "T", "E", " ", "K", "E", "Y">>

Label_ec == <<"E", "C", " ", "P", "R", "I", "V", "A", "T", "E", " ", "K", "E", "Y">>

Layouts ==
  [lines : 1..MaxLines,
   eol : {<<"\n">>, <<"\r", "\n">>},
   pad : {<<>>, <<" ", " ">>, <<"\t">>},
   label : {Label_private, Label_ec}]

\* Line k of the lines a body is cut into.
BodyLine(body, lines, k) ==
  LET width == (Len(body) + lines - 1) \div lines
      last == IF k * width < Len(body) THEN k * width ELSE Len(body)
  IN  SubSeq(body, (k - 1) * width + 1, last)

\* The PEM text of a body in a layout.
Render(body, layout) ==
  Dashes \o <<"B", "E", "G", "I", "N", " ">> \o layout.label \o Dashes \o layout.eol
    \o Flatten([k \in 1..layout.lines |->
                  IF BodyLine(body, layout.lines, k) = <<>> THEN <<>>
                  ELSE layout.pad \o BodyLine(body, layout.lines, k) \o layout.pad \o layout.eol])
    \o Dashes \o <<"E", "N", "D", " ">> \o layout.label \o Dashes

PemInputs == {Render(body, layout) : body \in PemBodies, layout \in Layouts}

\* The URLs whose canonical query is taken: at most MaxQuery pieces, among
\* them two values of one key whose order differs between the decoded and the
\* encoded form, a space written as +, a key that differs from keyid by case
\* only, and reserved parameters.
MaxQuery == 3

Piece_brace == <<"b", "=", "%", "7", "B">>

Piece_plus == <<"a", "=", "x", "+", "y">>

Piece_KeyId == <<"K", "e", "y", "I", "d", "=", "K">>

CanonicalPieces == {Piece_a, Piece_b, Piece_brace, Piece_plus, Piece_KeyId, Piece_keyid, Piece_signature}

CanonicalUrls == {UrlOf(q, <<>>) : q \in SeqsUpTo(CanonicalPieces, MaxQuery)}

DefaultOptions == [keyId |-> KeyId1, expiry |-> NoExpiry, privateKey |-> TEST_PRIVATE_KEY]

\* The options of the calls: the default, and the default with one of its
\* fields changed.
OptionsSet ==
  {DefaultOptions,
   [DefaultOptions EXCEPT !.keyId = KeyId2],
   [DefaultOptions EXCEPT !.expiry = ExpiryDate],
   [DefaultOptions EXCEPT !.expiry = ExpiryNumber],
   [DefaultOptions EXCEPT !.expiry = ExpiryString],
   [DefaultOptions EXCEPT !.privateKey = BadKey],
   [DefaultOptions EXCEPT !.privateKey = Key_short]}

(***************************************************************************)
(* The state machine: a caller and the library's public functions          *)
(***************************************************************************)

VARIABLES
  loaded, \* whether the library's module has been loaded
  now,    \* the clock reading (new Date())
  heap,   \* the caller's URL objects
  call,   \* the call made: the function and its argument (a url and options,
          \* a byte sequence or a text)
  ret     \* what the call returned or threw

vars == <<loaded, hashes, now, heap, call, ret>>

NoCall ==
  [op |-> "none", url |-> StringArg(<<>>), options |-> DefaultOptions,
   bytes |-> <<>>, text |-> <<>>]

Idle == call.op = "none"

\* The url arguments the caller can pass: a reference to its URL object when it
\* has made one, any input string otherwise.
UrlArgs == IF heap = <<>> THEN {StringArg(u) : u \in InputUrls} ELSE {ObjectArg(1)}

\* What is left of a heap when a call is over: the caller's objects; the
\* call's own objects are out of reach.
CallerPart(h) == SubSeq(h, 1, Len(heap))

Init ==
  /\ loaded = FALSE
  /\ hashes = "unset"
  /\ now = Instant(NowSec, 0)
  /\ heap = <<>>
  /\ call = NoCall
  /\ ret = NoRet

\* The caller imports the library: the module's top-level statements run,
\* hashes.sha512 = sha512 among them.  No function of the module can be called
\* before.
LoadModule ==
  /\ ~loaded
  /\ loaded' = TRUE
  /\ hashes' = "sha512"
  /\ UNCHANGED <<now, heap, call, ret>>

\* Time passes between calls.
Tick ==
  /\ Idle
  /\ heap = <<>>
  /\ now.ms < MaxTicks
  /\ now' = [now EXCEPT !.ms = now.ms + 1]
  /\ UNCHANGED <<loaded, hashes, heap, call, ret>>

\* The caller makes a URL object of its own: new URL(u).
Construct ==
  /\ Idle
  /\ heap = <<>>
  /\ \E u \in InputUrls : heap' = <<ParseURL(u)>>
  /\ UNCHANGED <<loaded, hashes, now, call, ret>>

CallSignAssetUrl ==
  /\ loaded
  /\ Idle
  /\ \E url \in UrlArgs, options \in OptionsSet :
       \E out \in {signAssetUrl(heap, url, options, now)} :
           /\ heap' = CallerPart(out.heap)
           /\ call' = [op |-> "signAssetUrl", url |-> url, options |-> options,
                       bytes |-> <<>>, text |-> <<>>]
           /\ ret' = out.result
  /\ hashes' = AfterSigning(hashes)
  /\ UNCHANGED <<loaded, now>>

CallSignUrl ==
  /\ loaded
  /\ Idle
  /\ \E url \in UrlArgs, options \in OptionsSet :
       \E out \in {signUrl(heap, url, options, now)} :
           /\ heap' = CallerPart(out.heap)
           /\ call' = [op |-> "signUrl", url |-> url, options |-> options,
                       bytes |-> <<>>, text |-> <<>>]
           /\ ret' = out.result
  /\ hashes' = AfterSigning(hashes)
  /\ UNCHANGED <<loaded, now>>

CallUrlWithSigningParams ==
  /\ loaded
  /\ Idle
  /\ \E url \in UrlArgs, options \in OptionsSet :
       \E out \in {urlWithSigningParams(heap, url, options, now)} :
           /\ heap' = CallerPart(out.heap)
           /\ call' = [op |-> "urlWithSigningParams", url |-> url, options |-> options,
                       bytes |-> <<>>, text |-> <<>>]
           /\ ret' = out.result
  /\ UNCHANGED <<loaded, hashes, now>>

CallGenerateSignature ==
  /\ loaded
  /\ Idle
  /\ \E url \in UrlArgs, key \in {TEST_PRIVATE_KEY} \cup InvalidKeys :
       /\ call' = [op |-> "generateSignature", url |-> url,
                   options |-> [DefaultOptions EXCEPT !.privateKey = key],
                   bytes |-> <<>>, text |-> <<>>]
       /\ ret' = generateSignature(ArgToString(heap, url), key)
  /\ hashes' = AfterSigning(hashes)
  /\ UNCHANGED <<loaded, now, heap>>

\* normalizeExpiry(expiry), called on its own.
CallNormalizeExpiry ==
  /\ loaded
  /\ Idle
  /\ heap = <<>>
  /\ \E expiry \in ExpiryInputs :
       /\ call' = [op |-> "normalizeExpiry", url |-> StringArg(<<>>),
                   options |-> [DefaultOptions EXCEPT !.expiry = expiry],
                   bytes |-> <<>>, text |-> <<>>]
       /\ ret' = normalizeExpiry(expiry, now)
  /\ UNCHANGED <<loaded, hashes, now, heap>>

\* toBase64UrlWithPadding(bytes), called on its own.
CallToBase64UrlWithPadding ==
  /\ loaded
  /\ Idle
  /\ heap = <<>>
  /\ \E bytes \in ByteInputs :
       /\ call' = [NoCall EXCEPT !.op = "toBase64UrlWithPadding", !.bytes = bytes]
       /\ ret' = Ok(toBase64UrlWithPadding(bytes))
  /\ UNCHANGED <<loaded, hashes, now, heap>>

\* ed25519SeedFromPkcs8(der), called on its own.
CallEd25519SeedFromPkcs8 ==
  /\ loaded
  /\ Idle
  /\ heap = <<>>
  /\ \E der \in DerInputs :
       /\ call' = [NoCall EXCEPT !.op = "ed25519SeedFromPkcs8", !.bytes = der]
       /\ ret' = ed25519SeedFromPkcs8(der)
  /\ UNCHANGED <<loaded, hashes, now, heap>>

\* pemToEd25519Bytes(pem), called on its own.
CallPemToEd25519Bytes ==
  /\ loaded
  /\ Idle
  /\ heap = <<>>
  /\ \E pem \in PemInputs :
       /\ call' = [NoCall EXCEPT !.op = "pemToEd25519Bytes", !.text = pem]
       /\ ret' = pemToEd25519Bytes(pem)
  /\ UNCHANGED <<loaded, hashes, now, heap>>

\* getCanonicalQuery(extractUserParams(new URL(url))), as the sign script
\* calls them.
CallGetCanonicalQuery ==
  /\ loaded
  /\ Idle
  /\ heap = <<>>
  /\ \E url \in CanonicalUrls :
       /\ call' = [NoCall EXCEPT !.op = "getCanonicalQuery", !.url = StringArg(url)]
       /\ ret' = Ok(getCanonicalQuery(extractUserParams(ParseURL(url))))
  /\ UNCHANGED <<loaded, hashes, now, heap>>

\* The caller is done with the result and with its URL object.
Return ==
  /\ ~Idle
  /\ heap' = <<>>
  /\ call' = NoCall
  /\ ret' = NoRet
  /\ UNCHANGED <<loaded, hashes, now>>

Next ==
  \/ LoadModule
  \/ Tick
  \/ Construct
  \/ CallSignAssetUrl
  \/ CallSignUrl
  \/ CallUrlWithSigningParams
  \/ CallGenerateSignature
  \/ CallNormalizeExpiry
  \/ CallToBase64UrlWithPadding
  \/ CallEd25519SeedFromPkcs8
  \/ CallPemToEd25519Bytes
  \/ CallGetCanonicalQuery
  \/ Return

Spec == Init /\ [][Next]_vars

(***************************************************************************)
(* Properties of the signed URLs                                           *)
(***************************************************************************)

\* The call of op has returned a value.
Returned(op) == call.op = op /\ ret.kind = "ok"

\* The string form of the call's url argument.
InputString == ArgToString(heap, call.url)

InputList == ParseURL(InputString).list

\* The query parameters of the returned URL.
OutputList == ParseURL(ret.value).list

IsReserved(name) == name \in {S_keyid, S_expiry, S_signature}

IsReservedPair(pair) == IsReserved(pair[1])

IsUserPair(pair) == ~IsReserved(pair[1])

Names(list) == [i \in 1..Len(list) |-> list[i][1]]

\* The pieces of a URL string: what precedes the query, the pieces of the
\* query between the & signs, and the fragment with its #.
UrlPieces(s) ==
  LET h == IndexOf(s, "#")
      front == IF h = 0 THEN s ELSE SubSeq(s, 1, h - 1)
      q == IndexOf(front, "?")
  IN  [base |-> IF q = 0 THEN front ELSE SubSeq(front, 1, q - 1),
       pieces |-> IF q = 0 THEN <<>> ELSE SplitOn(SubSeq(front, q + 1, Len(front)), "&"),
       fragment |-> IF h = 0 THEN <<>> ELSE SubSeq(s, h, Len(s))]

FromPieces(base, pieces, fragment) ==
  base \o (IF pieces = <<>> THEN <<>> ELSE <<"?">> \o Join(pieces, <<"&">>)) \o fragment

IsUserPiece(piece) == ~IsReserved(FormParsePair(piece)[1])

\* The pieces with the non-reserved ones in reverse order, each reserved piece
\* where it was.
ReverseUserPieces(pieces) ==
  LET idx == SelectSeq([i \in 1..Len(pieces) |-> i], LAMBDA i : IsUserPiece(pieces[i]))
      pos(i) == CHOOSE k \in 1..Len(idx) : idx[k] = i
  IN  [i \in 1..Len(pieces) |->
         IF IsUserPiece(pieces[i]) THEN pieces[idx[Len(idx) + 1 - pos(i)]] ELSE pieces[i]]

\* The URL string with its non-reserved parameters in reverse order.
Reordered(s) ==
  LET p == UrlPieces(s) IN FromPieces(p.base, ReverseUserPieces(p.pieces), p.fragment)

\* The URL string without its reserved parameters.
StripReserved(s) ==
  LET p == UrlPieces(s) IN FromPieces(p.base, SelectSeq(p.pieces, IsUserPiece), p.fragment)

\* The values of the signature parameters of a URL string.
SignaturesOf(s) == GetAll(ParseURL(s).list, S_signature)

\* C1: the signature parameter of the URL signAssetUrl returns is
\* generateSignature of that URL with its signature parameter removed, whatever
\* reserved parameters the input had.
C1_SignatureSignsReturnedUrl ==
  Returned("signAssetUrl") =>
    SignaturesOf(ret.value) =
      <<generateSignature(Href(SearchParamsDelete(ParseURL(ret.value), S_signature)),
                          call.options.privateKey).value>>

\* C2: signAssetUrl gives the same signature to two input URLs that differ only
\* in the order of their non-reserved parameters.
C2_OrderIndependent ==
  Returned("signAssetUrl") =>
    SignaturesOf(signAssetUrl(<<>>, StringArg(Reordered(InputString)), call.options, now).result.value)
      = SignaturesOf(ret.value)

\* C3: in the URL signAssetUrl returns the reserved parameters are keyid, expiry
\* (if present) and signature, in this order, each once.
C3_ReservedInOrderOnce ==
  Returned("signAssetUrl") =>
    Names(SelectSeq(OutputList, IsReservedPair)) \in
      {<<S_keyid, S_signature>>, <<S_keyid, S_expiry, S_signature>>}

\* C4: when the input URL carries signature parameters, the URL signAssetUrl
\* returns carries one, whose value is none of the input's; this holds as well
\* for the returned URL given as an input, whose signature is a generated one.
C4_OneNewSignature ==
  (Returned("signAssetUrl") /\ SignaturesOf(InputString) # <<>>) =>
    LET old == SignaturesOf(InputString)
        new == SignaturesOf(ret.value)
        again == SignaturesOf(signAssetUrl(<<>>, StringArg(ret.value), call.options, now).result.value)
    IN  /\ Len(new) = 1
        /\ \A i \in 1..Len(old) : old[i] # new[1]
        /\ Len(again) = 1
        /\ again[1] # new[1]

\* The input carried two signature parameters and one has come back.
C4_Witness ==
  /\ Returned("signAssetUrl")
  /\ Len(SignaturesOf(InputString)) >= 2
  /\ Len(SignaturesOf(ret.value)) = 1

\* s ends with p.
EndsWith(s, p) == Len(s) >= Len(p) /\ SubSeq(s, Len(s) - Len(p) + 1, Len(s)) = p

\* s has p as a substring.
HasSubstring(s, p) == \E i \in 1..(Len(s) - Len(p) + 1) : SubSeq(s, i, i + Len(p) - 1) = p

\* C5: the string signAssetUrl returns holds the signature character for
\* character as generateSignature produced it, its = padding included.
C5_SignatureVerbatim ==
  Returned("signAssetUrl") =>
    \A i \in 1..Len(SignaturesOf(ret.value)) :
      HasSubstring(ret.value, S_signature \o <<"=">> \o SignaturesOf(ret.value)[i])

\* C6: in the URL signAssetUrl returns, keyid is options.keyId, and there is an
\* expiry exactly when options.expiry is given, its value the normalized
\* options.expiry.
C6_NoCallerReservedValue ==
  Returned("signAssetUrl") =>
    /\ GetAll(OutputList, S_keyid) = <<call.options.keyId>>
    /\ GetAll(OutputList, S_expiry) =
         IF call.options.expiry = NoExpiry THEN <<>>
         ELSE <<normalizeExpiry(call.options.expiry, now).value>>

\* C7: a call of signAssetUrl on a URL object of the caller, whether it returns
\* or throws, leaves the object's string form as it was.
C7_CallerUrlUnchanged ==
  [][(call.op = "none" /\ call'.op = "signAssetUrl" /\ call'.url.isObject)
       => /\ Len(heap') = Len(heap)
          /\ Href(heap'[call'.url.ref]) = Href(heap[call'.url.ref])]_vars

\* signAssetUrl has thrown on a URL object of the caller that holds reserved
\* parameters.
C7_Witness ==
  /\ call.op = "signAssetUrl"
  /\ call.url.isObject
  /\ ret.kind = "throw"
  /\ HasName(heap[call.url.ref].list, S_keyid)
  /\ HasName(heap[call.url.ref].list, S_signature)

\* C8: for an input without fragment, the query of the URL signUrl returns is
\* the input's non-reserved parameters in their order, then one keyid, then an
\* expiry exactly when options.expiry is given, then one signature.
C8_SigningParamsLast ==
  (Returned("signUrl") /\ ~ParseURL(InputString).hasFragment) =>
    LET user == SelectSeq(InputList, IsUserPair)
    IN  /\ SubSeq(OutputList, 1, Len(user)) = user
        /\ Names(OutputList) =
             Names(user) \o <<S_keyid>>
               \o (IF call.options.expiry = NoExpiry THEN <<>> ELSE <<S_expiry>>)
               \o <<S_signature>>

\* signUrl has returned for an input without fragment that holds an expiry
\* before a non-reserved parameter, with an expiry in the options.
C8_Witness ==
  /\ Returned("signUrl")
  /\ ~ParseURL(InputString).hasFragment
  /\ call.options.expiry # NoExpiry
  /\ Names(InputList) = <<S_expiry, <<"b">>>>
  /\ Len(OutputList) = 4

\* C9: signUrl returns the string form of urlWithSigningParams' URL, then
\* &signature=, then generateSignature of that URL, unescaped.
C9_SignUrlConcatenates ==
  Returned("signUrl") =>
    LET urlWithParams == urlWithSigningParams(heap, call.url, call.options, now).result.value
    IN  ret.value = urlWithParams \o S_ampSignatureEq
                      \o generateSignature(urlWithParams, call.options.privateKey).value

\* signUrl has returned a string that ends with the signature's padding, for a
\* key id the query encoder escapes.
C9_Witness ==
  /\ Returned("signUrl")
  /\ call.options.keyId = KeyId2
  /\ EndsWith(ret.value, <<"=", "=">>)

\* C10: signUrl returns the same string for a URL and for that URL without its
\* reserved parameters; for a URL without fragment, signing the returned
\* string again returns it.
C10_ReservedInputIgnored ==
  Returned("signUrl") =>
    /\ signUrl(<<>>, StringArg(StripReserved(InputString)), call.options, now).result = ret
    /\ ~ParseURL(InputString).hasFragment
         => signUrl(<<>>, StringArg(ret.value), call.options, now).result = ret

\* signUrl has returned for an input without fragment that holds a signature
\* and a keyid.
C10_Witness ==
  /\ Returned("signUrl")
  /\ ~ParseURL(InputString).hasFragment
  /\ Names(InputList) = <<S_signature, S_keyid>>

\* The string signUrl signs for a URL string: urlWithSigningParams' URL.
SignedStringOfSignUrl(urlStr) ==
  urlWithSigningParams(<<>>, StringArg(urlStr), call.options, now).result.value

\* C11: for two URLs that differ only in the order of their non-reserved
\* parameters, signUrl signs different strings and returns different
\* signatures, and generateSignature returns different signatures.
C11_ModeAOrderSensitive ==
  /\ (Returned("signUrl") /\ ParseURL(Reordered(InputString)).list # InputList) =>
       /\ SignedStringOfSignUrl(Reordered(InputString)) # SignedStringOfSignUrl(InputString)
       /\ generateSignature(SignedStringOfSignUrl(Reordered(InputString)), call.options.privateKey)
            # generateSignature(SignedStringOfSignUrl(InputString), call.options.privateKey)
       /\ signUrl(<<>>, StringArg(Reordered(InputString)), call.options, now).result # ret
  /\ (Returned("generateSignature") /\ Reordered(InputString) # InputString) =>
       generateSignature(Reordered(InputString), call.options.privateKey) # ret

\* signUrl has returned for ?a=1&b=x%20y, whose parameters have another order.
C11_Witness ==
  /\ Returned("signUrl")
  /\ Names(InputList) = <<<<"a">>, <<"b">>>>
  /\ ParseURL(Reordered(InputString)).list # InputList

\* C12: signing keeps no state between calls.  In every state, whatever calls
\* came before, the result of the call is what the same call on the same URL
\* string, options and clock returns when it is made again; hashes.sha512 is
\* unset before the module is loaded, set from then on, and no call is made
\* before.
C12_NoStateBetweenCalls ==
  /\ loaded => hashes = "sha512"
  /\ ~loaded => hashes = "unset" /\ call.op = "none"
  /\ call.op = "generateSignature" =>
       ret = generateSignature(InputString, call.options.privateKey)
  /\ call.op = "signUrl" =>
       ret = signUrl(<<>>, StringArg(InputString), call.options, now).result
  /\ call.op = "signAssetUrl" =>
       ret = signAssetUrl(<<>>, StringArg(InputString), call.options, now).result

\* signAssetUrl has returned a signed URL after the clock has advanced, for a
\* URL object of the caller.
C12_Witness ==
  /\ Returned("signAssetUrl")
  /\ call.url.isObject
  /\ now # Instant(NowSec, 0)
  /\ hashes = "sha512"

\* A second valid private key.
OtherKey == [TEST_PRIVATE_KEY EXCEPT ![1] = "8"]

\* The URL string with another path.
WithOtherPath(s) ==
  LET p == UrlPieces(s) IN FromPieces(p.base \o <<"x">>, p.pieces, p.fragment)

\* The URL string with another value for its first non-reserved parameter.
WithOtherValue(s) ==
  LET p == UrlPieces(s)
      first == CHOOSE i \in 1..Len(p.pieces) :
                 IsUserPiece(p.pieces[i]) /\ \A j \in 1..(i - 1) : ~IsUserPiece(p.pieces[j])
  IN  FromPieces(p.base, [p.pieces EXCEPT ![first] = @ \o <<"2">>], p.fragment)

\* The calls that differ from the call of signAssetUrl on (s, o) in exactly one
\* of path, a non-reserved query value, keyId, expiry (with another normalized
\* form) and private key.
ChangedCalls(s, o) ==
  {<<WithOtherPath(s), o>>}
    \cup (IF \E i \in 1..Len(UrlPieces(s).pieces) : IsUserPiece(UrlPieces(s).pieces[i])
          THEN {<<WithOtherValue(s), o>>} ELSE {})
    \cup {<<s, [o EXCEPT !.keyId = k]>> : k \in {KeyId1, KeyId2} \ {o.keyId}}
    \cup {<<s, [o EXCEPT !.expiry = e]>> :
            e \in {x \in {NoExpiry, ExpiryDate, ExpiryNumber, ExpiryString} :
                     normalizeExpiry(x, now) # normalizeExpiry(o.expiry, now)}}
    \cup {<<s, [o EXCEPT !.privateKey = k]>> : k \in {TEST_PRIVATE_KEY, OtherKey} \ {o.privateKey}}

\* The result of signAssetUrl on a URL string.
SignAssetUrlOf(s, o) == signAssetUrl(<<>>, StringArg(s), o, now).result

\* C13: changing exactly one of path, a non-reserved query value, keyId, expiry
\* and private key in a call of signAssetUrl changes the signature of the
\* returned URL; stated for the input URL of the call and for the URL it
\* returned.
C13_OneChangeChangesSignature ==
  Returned("signAssetUrl") =>
    \A s \in {InputString, ret.value} : \A c \in ChangedCalls(s, call.options) :
      (SignAssetUrlOf(s, call.options).kind = "ok" /\ SignAssetUrlOf(c[1], c[2]).kind = "ok")
        => SignaturesOf(SignAssetUrlOf(c[1], c[2]).value)
             # SignaturesOf(SignAssetUrlOf(s, call.options).value)

(***************************************************************************)
(* Properties of normalizeExpiry                                           *)
(***************************************************************************)

\* The expiry of the call, and the instant it denotes: the time value of a
\* Date, the milliseconds of a number, the parsed date of a string.
InputExpiry == call.options.expiry

ExpiryInstantOf(e) == IF e.type = "string" THEN DateParse(e.text) ELSE e.time

GivenInstant == ExpiryInstantOf(InputExpiry)

NormalizeExpiryCalled == call.op = "normalizeExpiry" /\ InputExpiry.type # "undefined"

\* a is not later than b, on instants.
NotLater(a, b) ==
  \/ a.day < b.day
  \/ a.day = b.day /\ a.sod < b.sod
  \/ a.day = b.day /\ a.sod = b.sod /\ a.ms <= b.ms

\* C14: on an expiry that denotes an instant, normalizeExpiry throws 'Expiry
\* date must be in the future' exactly when the instant is not later than the
\* clock reading, and returns a string whenever the instant is at least one
\* millisecond later, whether the expiry is a Date, a number or a string.
C14_FutureExactly ==
  (NormalizeExpiryCalled /\ ~GivenInstant.nan) =>
    /\ (ret = Throw("Expiry date must be in the future")) <=> NotLater(GivenInstant, now)
    /\ ~NotLater(GivenInstant, now) => ret.kind = "ok"

\* A date string that denotes the clock reading itself is rejected.
C14_Witness ==
  /\ NormalizeExpiryCalled
  /\ InputExpiry.type = "string"
  /\ GivenInstant = now
  /\ now.ms = 1
  /\ ret = Throw("Expiry date must be in the future")

\* str has the form YYYY-MM-DDTHH:MM:SSZ.
IsSecondsForm(str) ==
  /\ Len(str) = 20
  /\ \A i \in {1, 2, 3, 4, 6, 7, 9, 10, 12, 13, 15, 16, 18, 19} : str[i] \in Digits
  /\ str[5] = "-" /\ str[8] = "-" /\ str[11] = "T"
  /\ str[14] = ":" /\ str[17] = ":" /\ str[20] = "Z"

\* The greatest whole second not after an instant.
WholeSecond(t) == [t EXCEPT !.ms = 0]

\* C15: whenever normalizeExpiry succeeds, its result has the form
\* YYYY-MM-DDTHH:MM:SSZ, denotes the greatest whole second not after the
\* instant given (truncated, never rounded up), and is the result for every
\* other expiry within the same second.
C15_TruncatedToSeconds ==
  Returned("normalizeExpiry") =>
    /\ IsSecondsForm(ret.value)
    /\ DateParse(ret.value) = WholeSecond(GivenInstant)
    /\ \A e \in ExpiryInputs :
         (e.type # "undefined" /\ WholeSecond(ExpiryInstantOf(e)) = WholeSecond(GivenInstant)
            /\ normalizeExpiry(e, now).kind = "ok")
           => normalizeExpiry(e, now) = ret

Base64UrlAlphabet == SubSeq(Base64Alphabet, 1, 62) \o <<"-", "_">>

\* str is characters of A-Z, a-z, 0-9, - and _ followed by pad times =.
IsPaddedBase64Url(str, pad) ==
  /\ pad <= Len(str)
  /\ \A i \in 1..(Len(str) - pad) : str[i] \in AlphaNum \cup {"-", "_"}
  /\ \A i \in (Len(str) - pad + 1)..Len(str) : str[i] = "="

\* C17: for a byte sequence of length n, toBase64UrlWithPadding returns a
\* string of length 4 * ceil(n / 3) made of A-Z, a-z, 0-9, - and _ followed by
\* zero to two =, and decoding that string as base64url gives the bytes back.
C17_Base64UrlRoundTrip ==
  Returned("toBase64UrlWithPadding") =>
    /\ Len(ret.value) = 4 * ((Len(call.bytes) + 2) \div 3)
    /\ \E pad \in 0..2 : IsPaddedBase64Url(ret.value, pad)
    /\ Base64Decode(ret.value, Base64UrlAlphabet) = Ok(call.bytes)

\* The 64 bytes 0xFF of a signature's length encode to 88 characters, _ among
\* them.
C17_Witness ==
  /\ Returned("toBase64UrlWithPadding")
  /\ call.bytes = [i \in 1..SignatureLength |-> 255]
  /\ Len(ret.value) = 88
  /\ ret.value[1] = "_"
  /\ ret.value[88] = "="

(***************************************************************************)
(* Properties of ed25519SeedFromPkcs8                                      *)
(***************************************************************************)

\* The buffer of the call.
InputDer == call.bytes

\* The positions i, from 0 as in the source, with der[i] = 0x04,
\* der[i + 1] = 0x20 and i + 34 <= length.
Candidates ==
  {i \in 0..(Len(InputDer) - 1) :
     /\ i + 34 <= Len(InputDer)
     /\ InputDer[i + 1] = 4
     /\ InputDer[i + 2] = 32}

\* der[i + 2 .. i + 33], positions from 0.
SeedAt(i) == [k \in 1..32 |-> InputDer[i + 2 + k]]

\* C18: when the buffer has a position i with der[i] = 0x04, der[i + 1] =
\* 0x20 and i + 34 <= length, ed25519SeedFromPkcs8 returns der[i + 2 .. i + 33]
\* for the greatest such i; with one such position only, the result is the 32
\* bytes embedded there, all-zero and all-0xFF included, and OCTET STRINGs of
\* other lengths do not count.
C18_LastSeedReturned ==
  (call.op = "ed25519SeedFromPkcs8" /\ Candidates # {}) =>
    \E i \in Candidates :
      /\ \A j \in Candidates : j <= i
      /\ ret = Ok(SeedAt(i))

\* Two 32-byte OCTET STRINGs, zeros then 0xFF: the second is returned.
C18_Witness ==
  /\ call.op = "ed25519SeedFromPkcs8"
  /\ InputDer = Chunk_seed \o Chunk_zero \o Chunk_seed \o Chunk_ff
  /\ Candidates = {0, 34}
  /\ ret = Ok(Chunk_ff)

\* C19: ed25519SeedFromPkcs8 throws 'Ed25519 32-byte seed not found in
\* PKCS#8' exactly when the buffer has no position with the tag, the length
\* 32 and at least 32 bytes after them; what it returns otherwise has 32
\* bytes, all of them bytes of the buffer.
C19_NotFoundExactly ==
  call.op = "ed25519SeedFromPkcs8" =>
    /\ (ret = Throw("Ed25519 32-byte seed not found in PKCS#8")) <=> (Candidates = {})
    /\ ret.kind \in {"ok", "throw"}
    /\ ret.kind = "ok" =>
         /\ Len(ret.value) = 32
         /\ \E i \in 0..(Len(InputDer) - 34) : ret.value = SeedAt(i)

\* The tag and the length followed by 31 bytes: no seed.
C19_Witness ==
  /\ call.op = "ed25519SeedFromPkcs8"
  /\ InputDer = Chunk_seed \o Chunk_31
  /\ ret = Throw("Ed25519 32-byte seed not found in PKCS#8")

(***************************************************************************)
(* Properties of pemToEd25519Bytes                                         *)
(***************************************************************************)

\* The PEM text of the call, and the body it is a layout of.
InputPem == call.text

LayoutsOfBodies == {<<Render(body, layout), body>> : body \in PemBodies, layout \in Layouts}

InputBody == CHOOSE body \in PemBodies : <<InputPem, body>> \in LayoutsOfBodies

\* What the decoding and the seed extraction give on each body as it stands,
\* with no marker and no whitespace to remove.
SeedOfBody == [body \in PemBodies |-> SeedOfDecoded(Base64Decode(body, Base64Alphabet))]

\* C20: the result of pemToEd25519Bytes is what the body alone gives, so the
\* same for every layout of the body (one line or several, LF or CRLF, padded
\* with spaces or a tab, any label); a result has exactly 32 bytes; with no
\* body the decoded buffer has length zero and the call fails in the seed
\* extraction.
C20_BodyOnly ==
  call.op = "pemToEd25519Bytes" =>
    /\ ret = SeedOfBody[InputBody]
    /\ ret.kind \in {"ok", "throw"}
    /\ ret.kind = "ok" => Len(ret.value) = 32
    /\ InputBody = <<>> =>
         /\ base64ToBytes(extractPemContents(InputPem)) = Ok(<<>>)
         /\ ret = Throw("Ed25519 32-byte seed not found in PKCS#8")

\* The key of the all-0xFF seed on three padded lines ended by CRLF gives the
\* 32 bytes 0xFF.
C20_Witness ==
  /\ call.op = "pemToEd25519Bytes"
  /\ InputPem = Render(Body_ff, [lines |-> 3, eol |-> <<"\r", "\n">>, pad |-> <<"\t">>,
                                 label |-> Label_private])
  /\ ret = Ok([i \in 1..32 |-> 255])

(***************************************************************************)
(* Properties of the errors                                                *)
(***************************************************************************)

\* The private key of the call.
InputKey == call.options.privateKey

\* Every character of key is a hexadecimal digit.
AllHex(key) ==
  \A i \in 1..Len(key) :
    key[i] \in Digits \cup {"a", "b", "c", "d", "e", "f", "A", "B", "C", "D", "E", "F"}

\* key is exactly 64 hexadecimal characters.
IsSeedHex(key) == Len(key) = 64 /\ AllHex(key)

SigningCall == call.op \in {"generateSignature", "signUrl", "signAssetUrl"}

\* C21 as the spec has it: a key that is not 64 hexadecimal characters makes
\* the three functions throw; generateSignature throws the invalid-hex error
\* for a key with a character that is no hexadecimal digit and the
\* 32-byte-length error for hexadecimal digits of any other length.
C21_InvalidKeyAsStated ==
  (SigningCall /\ ~IsSeedHex(InputKey)) =>
    /\ ret.kind = "throw"
    /\ (call.op = "generateSignature" /\ ~AllHex(InputKey)) => ret.error = "hex invalid"
    /\ (call.op = "generateSignature" /\ AllHex(InputKey)) =>
         ret.error = "private key of length 32 expected"

\* C21: a key that is not 64 hexadecimal characters makes the three functions
\* throw; generateSignature throws the invalid-hex error for a key with a
\* character that is no hexadecimal digit or with an odd number of
\* characters, and the 32-byte-length error for an even number of
\* hexadecimal digits other than 64.
C21_InvalidKeyRejected ==
  (SigningCall /\ ~IsSeedHex(InputKey)) =>
    /\ ret.kind = "throw"
    /\ (call.op = "generateSignature" /\ (~AllHex(InputKey) \/ Len(InputKey) % 2 = 1)) =>
         ret.error = "hex invalid"
    /\ (call.op = "generateSignature" /\ AllHex(InputKey) /\ Len(InputKey) % 2 = 0) =>
         ret.error = "private key of length 32 expected"

\* signUrl with 20 hexadecimal digits for a key throws the length error.
C21_Witness ==
  /\ call.op = "signUrl"
  /\ InputKey = Key_short
  /\ ret = Throw("private key of length 32 expected")

\* str holds name= followed by count characters of the base64url alphabet
\* and its padding.
CarriesValue(str, name, count) ==
  \E i \in 1..(Len(str) - Len(name) - count) :
    /\ SubSeq(str, i, i + Len(name)) = name \o <<"=">>
    /\ \A k \in 1..count : str[i + Len(name) + k] \in AlphaNum \cup {"-", "_", "=", "%"}

\* The errors of the expiry and of the private key.
SigningErrors ==
  {"Invalid expiry date format", "Expiry date must be in the future",
   "hex invalid", "private key of length 32 expected"}

CanonicalOf(str) == getCanonicalQuery(extractUserParams(ParseURL(str)))

\* The key=value pieces of the canonical query returned, as they are written.
CanonicalPairs ==
  LET pieces == IF ret.value = <<>> THEN <<>> ELSE SplitOn(ret.value, "&")
  IN  [i \in 1..Len(pieces) |->
         <<SubSeq(pieces[i], 1, IndexOf(pieces[i], "=") - 1),
           SubSeq(pieces[i], IndexOf(pieces[i], "=") + 1, Len(pieces[i]))>>]

DecodedCanonicalPairs ==
  [i \in 1..Len(CanonicalPairs) |->
     <<PercentDecode(CanonicalPairs[i][1]), PercentDecode(CanonicalPairs[i][2])>>]

\* The parameters of the input that are not named keyid, expiry or signature.
UserPairs == SelectSeq(InputList, IsUserPair)

\* How many times a pair stands in a list.
Count(list, pair) == Cardinality({i \in 1..Len(list) : list[i] = pair})

\* C23: the canonical query lists the non-reserved pairs of the URL, each as
\* often as the URL has it, written with letters, digits, - . _ ~ and %XX
\* only, sorted by encoded key then by encoded value; it is the same for the
\* URL with these pairs in another order and for the URL without its keyid,
\* expiry and signature parameters, keeps a parameter named KeyId, and is the
\* empty string when the URL has no non-reserved parameter.
C23_CanonicalQuery ==
  call.op = "getCanonicalQuery" =>
    /\ \A i \in 1..Len(ret.value) :
         ret.value[i] \in AlphaNum \cup {"-", ".", "_", "~", "%", "=", "&"}
    /\ \A i \in 1..(Len(CanonicalPairs) - 1) :
         \/ LexLess(CanonicalPairs[i][1], CanonicalPairs[i + 1][1])
         \/ /\ CanonicalPairs[i][1] = CanonicalPairs[i + 1][1]
            /\ ~LexLess(CanonicalPairs[i + 1][2], CanonicalPairs[i][2])
    /\ Len(CanonicalPairs) = Len(UserPairs)
    /\ \A i \in 1..Len(UserPairs) :
         Count(DecodedCanonicalPairs, UserPairs[i]) = Count(UserPairs, UserPairs[i])
    /\ CanonicalOf(Reordered(InputString)) = ret.value
    /\ CanonicalOf(StripReserved(InputString)) = ret.value
    /\ UserPairs = <<>> => ret.value = <<>>

\* Two values of b around a keyid: keyid is left out and the value written
\* with a percent sign comes before the one that begins with x, the order of
\* the encoded values.
C23_Witness ==
  /\ call.op = "getCanonicalQuery"
  /\ InputString = UrlOf(<<Piece_b, Piece_keyid, Piece_brace>>, <<>>)
  /\ ret.value = <<"b", "=", "%", "7", "B", "&", "b", "=", "x", "%", "2", "0", "y">>

\* A parameter named KeyId is kept.
C23_WitnessCase ==
  /\ call.op = "getCanonicalQuery"
  /\ InputString = UrlOf(<<Piece_KeyId, Piece_plus, Piece_signature>>, <<>>)
  /\ ret.value = <<"K", "e", "y", "I", "d", "=", "K", "&", "a", "=", "x", "%", "2", "0", "y">>

(***************************************************************************)
(* Properties of signUrl on a URL with a fragment                          *)
(***************************************************************************)

\* C24: for an input with a fragment, the string signUrl returns, parsed as a
\* URL, has a signature parameter in its query and the fragment of the input.
C24_SignatureInQuery ==
  (Returned("signUrl") /\ ParseURL(InputString).hasFragment) =>
    /\ HasName(OutputList, S_signature)
    /\ ParseURL(ret.value).fragment = ParseURL(InputString).fragment

(***************************************************************************)
(* Properties of normalizeExpiry against the clock                         *)
(***************************************************************************)

C26_InvalidInstantRejected ==
  (NormalizeExpiryCalled /\ GivenInstant.nan) =>
    ret = Throw("Invalid expiry date format")

====
